---- MODULE Spec2Model ----
(***************************************************************************)
(* The distributed batch sampler of ppdet/data/samplers.py (class Sampler) *)
(* as a state machine: a group of sampler objects that share one           *)
(* configuration, each with its own rank, epoch counter, cursor and shard. *)
(* numpy's seeded generator is external: RandomState(seed) is modelled as  *)
(* a generator state derived from the seed and an unknown but fixed key,   *)
(* and permutation() as the Fisher-Yates shuffle driven by that state.     *)
(***************************************************************************)
EXTENDS Integers, Sequences, FiniteSets, TLC

\* ---------------------------------------------------------------- bounds
MaxLen == 3
MaxBatch == 2
MaxWorld == 2
MaxEpoch == 2
MaxKey == 6
MaxEntropy == 2

\* Sampler.__init__ default: init_seed=1
init_seed == 1

VARIABLES
    dataset,                  \* [len, has_ratios, aspect_ratios]
    batch_size,
    shuffle,
    aspect_ratio_thresholds,  \* [kind: "None" | "scalar" | "seq", val]
    pad_batch,
    sync_seed_schedule,
    world_size,
    rank,                     \* sampler object -> its rank
    key,                      \* the unknown parameter of the seeded generator
    obj,                      \* "ok" | "failed": outcome of __init__
    attrs,                    \* the attributes hasattr() finds: num_batches, _shard
    num_batches,
    bucket_flags,
    bucket_sizes,
    pad_lengths,
    epoch,
    step,                     \* self._step
    shard,                    \* self._shard
    ret                       \* what the last call returned or raised

cfgvars == <<dataset, batch_size, shuffle, aspect_ratio_thresholds, pad_batch,
             sync_seed_schedule, world_size, rank, key>>
vars == <<dataset, batch_size, shuffle, aspect_ratio_thresholds, pad_batch,
          sync_seed_schedule, world_size, rank, key,
          obj, attrs, num_batches, bucket_flags, bucket_sizes, pad_lengths,
          epoch, step, shard, ret>>

\* what setup() stores
schedule == <<attrs, num_batches, bucket_flags, bucket_sizes, pad_lengths>>

Samplers == DOMAIN rank

\* ------------------------------------------------------------- helpers
Min(a, b) == IF a < b THEN a ELSE b

\* a quotient rounded down instead of up
Ceil_m(a, b) == a \div b

\* math.ceil(a / b) under true division, for a >= 0 and b > 0
Ceil(a, b) == (a + b - 1) \div b

\* s[:n] for n >= 0: Python slicing stops at the end of the list
Prefix(s, n) == SubSeq(s, 1, Min(n, Len(s)))

\* [v] * n
Repeat(v, n) == [k \in 1..n |-> v]

\* np.arange(n)
Arange(n) == [k \in 1..n |-> k - 1]

\* list-comprehension filter: [idx for idx in s if idx != -1]
RECURSIVE DropSentinel(_)
DropSentinel(s) ==
    IF s = <<>> THEN <<>>
    ELSE IF Head(s) = -1 THEN DropSentinel(Tail(s))
    ELSE <<Head(s)>> \o DropSentinel(Tail(s))

NoThresholds == [kind |-> "None", val |-> <<>>]
ScalarThreshold == [kind |-> "scalar", val |-> <<1>>]
\* a non-sequence value that is false in a condition: 0, 0.0 or False
ZeroThreshold == [kind |-> "scalar", val |-> <<0>>]
SeqThresholds == [kind |-> "seq", val |-> <<1>>]

\* truth value of self.aspect_ratio_thresholds
Truthy(t) ==
    \/ t.kind = "scalar" /\ t.val # <<0>>
    \/ t.kind = "seq" /\ t.val # <<>>

\* the two assertions of __init__
InitAssertsHold ==
    /\ (~Truthy(aspect_ratio_thresholds) \/ aspect_ratio_thresholds.kind = "seq")
    /\ (pad_batch \/ ~Truthy(aspect_ratio_thresholds))

Ret(op, kind, val) == [op |-> op, kind |-> kind, val |-> val]

\* ------------------------------------------------------------ setup()
whole_batch_size == world_size * batch_size

\* the assertion of setup(): hasattr(self.dataset, 'aspect_ratios')
SetupAssertHolds ==
    aspect_ratio_thresholds.kind = "None" \/ dataset.has_ratios

\* how setup() ends: the assertion fails, or np.digitize rejects thresholds
\* that are not one-dimensional, or setup() completes ("none")
SetupError ==
    IF aspect_ratio_thresholds.kind = "None" THEN "none"
    ELSE IF ~dataset.has_ratios THEN "AssertionError"
    ELSE IF aspect_ratio_thresholds.kind = "scalar" THEN "ValueError"
    ELSE "none"

SetupCompletes == SetupError = "none"

\* np.digitize(aspect_ratios, thresholds): the number of thresholds <= ratio
Digitize(ratios, thresholds) ==
    [k \in 1..Len(ratios) |->
        Cardinality({t \in 1..Len(thresholds) : thresholds[t] <= ratios[k]})]

\* np.bincount(flags): one count per flag value 0..max(flags)
Bincount(flags) ==
    LET vals == {flags[k] : k \in 1..Len(flags)}
        top == IF vals = {} THEN -1
               ELSE CHOOSE m \in vals : \A f \in vals : f <= m
    IN [b \in 1..(top + 1) |->
           Cardinality({k \in 1..Len(flags) : flags[k] = b - 1})]

\* the pad_lengths list of setup()
PadLengths(sizes) ==
    [b \in 1..Len(sizes) |->
        Ceil(sizes[b], whole_batch_size) * whole_batch_size - sizes[b]]

RECURSIVE SumSeq(_)
SumSeq(s) == IF s = <<>> THEN 0 ELSE Head(s) + SumSeq(Tail(s))

\* what setup() stores: num_batches alone without thresholds, else the
\* bucket layout too
SetupResult ==
    IF aspect_ratio_thresholds.kind = "None"
    THEN [num_batches |-> Ceil(dataset.len, whole_batch_size),
          bucket_flags |-> <<>>, bucket_sizes |-> <<>>, pad_lengths |-> <<>>]
    ELSE LET flags == Digitize(dataset.aspect_ratios, aspect_ratio_thresholds.val)
             sizes == Bincount(flags)
         IN [num_batches |-> SumSeq([b \in 1..Len(sizes) |->
                                        Ceil(sizes[b], whole_batch_size)]),
             bucket_flags |-> flags,
             bucket_sizes |-> sizes,
             pad_lengths |-> PadLengths(sizes)]

\* ---------------------------------------------------------- generator
\* np.random.RandomState(seed): the generator state a seed leads to
SeedState(seed) == (key + seed) % MaxKey

\* the generator's state after one draw
StepGen(g) == (g + 1) % MaxKey

\* the generator's state after permuting n elements (n - 1 draws)
RECURSIVE AfterDraws(_, _)
AfterDraws(g, n) == IF n < 2 THEN g ELSE AfterDraws(StepGen(g), n - 1)

Swap(x, a, b) == [x EXCEPT ![a] = x[b], ![b] = x[a]]

\* Fisher-Yates, as numpy's shuffle: for i = n-1 .. 1, swap x[i] and x[j],
\* j drawn from 0..i (positions are 1-based here)
RECURSIVE Shuffle(_, _, _)
Shuffle(x, i, g) ==
    IF i < 2 THEN x
    ELSE Shuffle(Swap(x, i, (g % i) + 1), i - 1, StepGen(g))

\* rand_perm of reset(): the identity without shuffle, else a permutation
\* (of the rows, for a two-dimensional array) drawn from generator state g
rand_perm(x, g) == IF ~shuffle THEN x ELSE Shuffle(x, Len(x), g)

\* the generator state rand_perm leaves behind
rand_next(x, g) == IF ~shuffle THEN g ELSE AfterDraws(g, Len(x))

\* the seed reset() computes under the synchronized schedule
ResetSeed(i) == epoch[i] + init_seed

\* a reset() that advances the epoch whenever the schedule is synchronized
SeededBranch_m == sync_seed_schedule

\* whether reset() takes the seeded branch, which also advances the epoch
SeededBranch == shuffle /\ sync_seed_schedule

\* a reset() that never seeds its generator
GenChoices_m(i) == IF ~shuffle THEN {0} ELSE 0..(MaxEntropy - 1)

\* the generator states reset() may start from
GenChoices(i) ==
    IF ~shuffle THEN {0}
    ELSE IF sync_seed_schedule THEN {SeedState(ResetSeed(i))}
    ELSE 0..(MaxEntropy - 1)

\* ------------------------------------------------------------ reset()
\* np.where(flags == idx)[0]: the members of bucket idx, ascending
RECURSIVE Where(_, _, _)
Where(flags, idx, k) ==
    IF k > Len(flags) THEN <<>>
    ELSE (IF flags[k] = idx THEN <<k - 1>> ELSE <<>>) \o Where(flags, idx, k + 1)

\* one bucket's contribution: shuffled += shuffled[:pad]
BucketSegment(bucket, pad, g) ==
    LET shuffled == rand_perm(bucket, g)
    IN shuffled \o Prefix(shuffled, pad)

\* the loop over the buckets, from bucket idx on; st is what setup() stored
RECURSIVE BucketStream(_, _, _)
BucketStream(st, idx, g) ==
    IF idx >= Len(st.bucket_sizes) THEN [ids |-> <<>>, g |-> g]
    ELSE IF st.bucket_sizes[idx + 1] = 0 THEN BucketStream(st, idx + 1, g)
    ELSE LET bucket == Where(st.bucket_flags, idx, 1)
             rest == BucketStream(st, idx + 1, rand_next(bucket, g))
         IN [ids |-> BucketSegment(bucket, st.pad_lengths[idx + 1], g) \o rest.ids,
             g |-> rest.g]

\* the padded stream without bucketing; st.num_batches is len(self)
FlatStream(st, g) ==
    LET perm == rand_perm(Arange(dataset.len), g)
        pad == st.num_batches * whole_batch_size - dataset.len
    IN [ids |-> perm \o (IF pad_batch THEN Prefix(perm, pad) ELSE Repeat(-1, pad)),
        g |-> rand_next(Arange(dataset.len), g)]

\* shuffled_indices of reset(), with the generator state left behind
ShuffledIndices(st, g) ==
    IF Truthy(aspect_ratio_thresholds) THEN BucketStream(st, 0, g) ELSE FlatStream(st, g)

\* np.array(ids).reshape(-1, batch_size) is possible
CanBatch(ids) == Len(ids) % batch_size = 0

\* the rows of np.array(ids).reshape(-1, batch_size)
Batches(ids) ==
    [k \in 1..(Len(ids) \div batch_size) |->
        SubSeq(ids, (k - 1) * batch_size + 1, k * batch_size)]

\* rows.reshape(world_size, -1, batch_size) is possible
CanShard(rows) == Len(rows) % world_size = 0

\* a split that hands every rank the first group
ShardOf_m(rows, r) == SubSeq(rows, 1, Len(rows) \div world_size)

\* shuffled_shards[r]
ShardOf(rows, r) ==
    LET m == Len(rows) \div world_size
    IN SubSeq(rows, r * m + 1, (r + 1) * m)

\* the batches of the epoch in their shuffled order, before the split by rank
ShuffledBatches(st, g) ==
    LET s == ShuffledIndices(st, g)
    IN rand_perm(Batches(s.ids), s.g)

\* the rest of reset() from the generator state g on: the shard of rank r, or
\* the ValueError of a reshape
ResetResult(st, g, r) ==
    LET s == ShuffledIndices(st, g)
    IN IF ~CanBatch(s.ids) THEN [ok |-> FALSE, shard |-> <<>>]
       ELSE LET rows == rand_perm(Batches(s.ids), s.g)
            IN IF ~CanShard(rows) THEN [ok |-> FALSE, shard |-> <<>>]
               ELSE [ok |-> TRUE, shard |-> ShardOf(rows, r)]

\* ------------------------------------------------------------- actions
\* what setup() has stored in sampler i
Stored(i) ==
    [num_batches |-> num_batches[i], bucket_flags |-> bucket_flags[i],
     bucket_sizes |-> bucket_sizes[i], pad_lengths |-> pad_lengths[i]]

\* setup() succeeds on sampler i and stores st
Store(i, st) ==
    /\ attrs' = [attrs EXCEPT ![i] = @ \cup {"num_batches"}]
    /\ num_batches' = [num_batches EXCEPT ![i] = st.num_batches]
    /\ bucket_flags' = [bucket_flags EXCEPT ![i] = st.bucket_flags]
    /\ bucket_sizes' = [bucket_sizes EXCEPT ![i] = st.bucket_sizes]
    /\ pad_lengths' = [pad_lengths EXCEPT ![i] = st.pad_lengths]

\* Sampler.setup, called directly
Setup(i) ==
    /\ obj[i] = "ok"
    /\ IF SetupCompletes
       THEN /\ Store(i, SetupResult)
            /\ ret' = [ret EXCEPT ![i] = Ret("setup", "ok", <<>>)]
       ELSE /\ ret' = [ret EXCEPT ![i] = Ret("setup", SetupError, <<>>)]
            /\ UNCHANGED schedule
    /\ UNCHANGED <<cfgvars, obj, epoch, step, shard>>

\* Sampler.reset, called directly or by __iter__; op names the call
ResetBody(i, op) ==
    /\ SeededBranch => epoch[i] < MaxEpoch
    /\ IF "num_batches" \notin attrs[i] /\ ~SetupCompletes
       THEN /\ ret' = [ret EXCEPT ![i] = Ret(op, SetupError, <<>>)]
            /\ UNCHANGED <<schedule, epoch, step, shard>>
       ELSE LET st == IF "num_batches" \in attrs[i] THEN Stored(i) ELSE SetupResult
            IN /\ num_batches' = [num_batches EXCEPT ![i] = st.num_batches]
               /\ bucket_flags' = [bucket_flags EXCEPT ![i] = st.bucket_flags]
               /\ bucket_sizes' = [bucket_sizes EXCEPT ![i] = st.bucket_sizes]
               /\ pad_lengths' = [pad_lengths EXCEPT ![i] = st.pad_lengths]
               /\ epoch' = [epoch EXCEPT ![i] = IF SeededBranch THEN @ + 1 ELSE @]
               /\ \E g \in GenChoices(i) :
                    LET res == ResetResult(st, g, rank[i])
                    IN IF res.ok
                       THEN /\ shard' = [shard EXCEPT ![i] = res.shard]
                            /\ step' = [step EXCEPT ![i] = 0]
                            /\ attrs' = [attrs EXCEPT ![i] = @ \cup {"num_batches", "_shard"}]
                            /\ ret' = [ret EXCEPT ![i] = Ret(op, "ok", <<>>)]
                       ELSE /\ attrs' = [attrs EXCEPT ![i] = @ \cup {"num_batches"}]
                            /\ ret' = [ret EXCEPT ![i] = Ret(op, "ValueError", <<>>)]
                            /\ UNCHANGED <<shard, step>>
    /\ UNCHANGED <<cfgvars, obj>>

\* Sampler.reset
Reset(i) ==
    /\ obj[i] = "ok"
    /\ ResetBody(i, "reset")

\* whether __iter__ calls reset()
IterResets(i) == "_shard" \notin attrs[i]

\* Sampler.__iter__
Iter(i) ==
    /\ obj[i] = "ok"
    /\ IF IterResets(i)
       THEN ResetBody(i, "iter")
       ELSE /\ ret' = [ret EXCEPT ![i] = Ret("iter", "ok", <<>>)]
            /\ UNCHANGED <<cfgvars, obj, schedule, epoch, step, shard>>

\* a __next__ that stops one step late
Exhausted_m(i) == step[i] > num_batches[i]

\* whether __next__ raises StopIteration
Exhausted(i) == step[i] >= num_batches[i]

\* a __next__ that never filters the sentinel
NextBatch_m(i) == shard[i][step[i] + 1]

\* the batch __next__ returns
NextBatch(i) ==
    IF pad_batch THEN shard[i][step[i] + 1] ELSE DropSentinel(shard[i][step[i] + 1])

\* Sampler.__next__
Next_(i) ==
    /\ obj[i] = "ok"
    /\ IF "num_batches" \notin attrs[i]
       THEN /\ ret' = [ret EXCEPT ![i] = Ret("next", "AttributeError", <<>>)]
            /\ UNCHANGED step
       ELSE IF Exhausted(i)
       THEN /\ ret' = [ret EXCEPT ![i] = Ret("next", "StopIteration", <<>>)]
            /\ UNCHANGED step
       ELSE IF "_shard" \notin attrs[i]
       THEN /\ ret' = [ret EXCEPT ![i] = Ret("next", "AttributeError", <<>>)]
            /\ UNCHANGED step
       ELSE IF step[i] + 1 > Len(shard[i])
       THEN /\ ret' = [ret EXCEPT ![i] = Ret("next", "IndexError", <<>>)]
            /\ UNCHANGED step
       ELSE /\ ret' = [ret EXCEPT ![i] = Ret("next", "value", NextBatch(i))]
            /\ step' = [step EXCEPT ![i] = @ + 1]
    /\ UNCHANGED <<cfgvars, obj, schedule, epoch, shard>>

\* a __len__ that resets
Length_m(i) ==
    /\ obj[i] = "ok"
    /\ ResetBody(i, "len")

\* Sampler.__len__
Length(i) ==
    /\ obj[i] = "ok"
    /\ IF "num_batches" \in attrs[i]
       THEN /\ ret' = [ret EXCEPT ![i] = Ret("len", "value", <<num_batches[i]>>)]
            /\ UNCHANGED schedule
       ELSE IF SetupCompletes
       THEN /\ Store(i, SetupResult)
            /\ ret' = [ret EXCEPT ![i] = Ret("len", "value", <<SetupResult.num_batches>>)]
       ELSE /\ ret' = [ret EXCEPT ![i] = Ret("len", SetupError, <<>>)]
            /\ UNCHANGED schedule
    /\ UNCHANGED <<cfgvars, obj, epoch, step, shard>>

\* ------------------------------------------------------ specification
RatioValues == {0, 1}

\* the datasets of a job; thresholds that setup() cannot use are paired with
\* one list of ratios per length, which is never read
Datasets(thresholds) ==
    IF thresholds.kind = "None"
    THEN {[len |-> n, has_ratios |-> FALSE, aspect_ratios |-> <<>>] : n \in 0..MaxLen}
    ELSE UNION {
            {[len |-> n, has_ratios |-> FALSE, aspect_ratios |-> <<>>]} \cup
            {[len |-> n, has_ratios |-> TRUE, aspect_ratios |-> a] :
                a \in IF thresholds.kind = "scalar" THEN {[k \in 1..n |-> 0]}
                      ELSE [1..n -> RatioValues]} : n \in 0..MaxLen}

\* the configuration shared by the samplers of one job
InitConfig ==
    /\ aspect_ratio_thresholds \in
          {NoThresholds, ScalarThreshold, ZeroThreshold, SeqThresholds}
    /\ dataset \in Datasets(aspect_ratio_thresholds)
    /\ batch_size \in 1..MaxBatch
    /\ world_size \in 1..MaxWorld
    /\ shuffle \in BOOLEAN
    /\ pad_batch \in BOOLEAN
    /\ sync_seed_schedule \in BOOLEAN
    /\ key \in (IF shuffle /\ sync_seed_schedule THEN 0..(MaxKey - 1) ELSE {0})

\* Sampler.__init__: the object exists if the two assertions hold
InitObjects ==
    /\ obj = [i \in Samplers |-> IF InitAssertsHold THEN "ok" ELSE "failed"]
    /\ attrs = [i \in Samplers |-> {}]
    /\ num_batches = [i \in Samplers |-> 0]
    /\ bucket_flags = [i \in Samplers |-> <<>>]
    /\ bucket_sizes = [i \in Samplers |-> <<>>]
    /\ pad_lengths = [i \in Samplers |-> <<>>]
    /\ epoch = [i \in Samplers |-> 0]
    /\ step = [i \in Samplers |-> 0]
    /\ shard = [i \in Samplers |-> <<>>]
    /\ ret = [i \in Samplers |->
                IF InitAssertsHold THEN Ret("init", "ok", <<>>)
                ELSE Ret("init", "AssertionError", <<>>)]

\* one sampler of the job, of any rank
Init ==
    /\ InitConfig
    /\ \E r \in 0..(world_size - 1) : rank = [i \in {0} |-> r]
    /\ InitObjects

\* two samplers of the job, of the same rank or of two ranks
InitPair ==
    /\ InitConfig
    /\ \E r0, r1 \in 0..(world_size - 1) : r0 <= r1 /\ rank = <<r0, r1>>
    /\ InitObjects

\* a call on some sampler of the job
SetupCall == \E i \in Samplers : Setup(i)
ResetCall == \E i \in Samplers : Reset(i)
IterCall == \E i \in Samplers : Iter(i)
NextCall == \E i \in Samplers : Next_(i)
LengthCall == \E i \in Samplers : Length(i)

Next ==
    \/ SetupCall
    \/ ResetCall
    \/ IterCall
    \/ NextCall
    \/ LengthCall

Spec == Init /\ [][Next]_vars

\* the calls that compute an epoch's shard
NextReset ==
    \/ ResetCall
    \/ IterCall

SpecPair == InitPair /\ [][NextReset]_vars

\* -------------------------------------------------------------- claims
\* sampler i made the step, a call of op
Called(i, op) ==
    /\ <<attrs[i], num_batches[i], epoch[i], step[i], shard[i], ret[i]>>' #
       <<attrs[i], num_batches[i], epoch[i], step[i], shard[i], ret[i]>>
    /\ ret'[i].op = op

\* sampler i has called reset() at least once, directly or through __iter__
HasReset(i) == ret[i].op \in {"reset", "iter"}

\* the dataset indices in a shard
IndexSet(sh) ==
    UNION {{sh[b][k] : k \in 1..Len(sh[b])} : b \in 1..Len(sh)} \ {-1}

\* how often x occurs in s
SeqCount(s, x) == Cardinality({k \in 1..Len(s) : s[k] = x})

Range(s) == {s[k] : k \in 1..Len(s)}

\* the pair holds one sampler of every rank of the job
OneOfRank(r) == CHOOSE i \in Samplers : rank[i] = r
Covered == \A r \in 0..(world_size - 1) : \E i \in Samplers : rank[i] = r
Job == {OneOfRank(r) : r \in 0..(world_size - 1)}

\* the shards of ranks r, r+1, .., world_size-1, one after the other
RECURSIVE ShardsFrom(_)
ShardsFrom(r) ==
    IF r >= world_size THEN <<>>
    ELSE shard[OneOfRank(r)] \o ShardsFrom(r + 1)

\* the generator state the last reset() of sampler i started from, under the
\* synchronized schedule or without shuffle
LastGen(i) == IF shuffle THEN SeedState(epoch[i] - 1 + init_seed) ELSE 0

\* C1: with one sampler per rank, synchronized seeding or no shuffle, and the
\* same number of Reset calls on each, every rank's shard holds exactly
\* num_batches batches and the shards together are exactly the local batches
\* of the epoch's padded index stream, each batch in exactly one shard.
C1_ShardsPartition ==
    ( /\ Covered
      /\ sync_seed_schedule \/ ~shuffle
      /\ SetupCompletes
      /\ \A i \in Job : HasReset(i)
      /\ \A i, j \in Job : epoch[i] = epoch[j] )
    => /\ \A i \in Job : /\ "_shard" \in attrs[i]
                         /\ Len(shard[i]) = num_batches[i]
       /\ LET i0 == OneOfRank(0)
              local == Batches(ShuffledIndices(Stored(i0), LastGen(i0)).ids)
              all == ShardsFrom(0)
          IN /\ Len(all) = Len(local)
             /\ \A x \in Range(all) \cup Range(local) :
                    SeqCount(all, x) = SeqCount(local, x)

\* two samplers of different ranks that hold the shards of the same epoch
\* under the synchronized schedule
SameEpochRanks(i, j) ==
    /\ sync_seed_schedule
    /\ rank[i] # rank[j]
    /\ "_shard" \in attrs[i] /\ "_shard" \in attrs[j]
    /\ epoch[i] = epoch[j]

\* padding repeats no index: sentinels are appended, or nothing is appended
NoReuse(i) == ~pad_batch \/ num_batches[i] * whole_batch_size = dataset.len

\* C2 as stated: in every epoch, under the synchronized schedule, the shards
\* of two samplers that differ only in rank share no dataset index.
C2_Disjoint ==
    \A i, j \in Samplers :
        SameEpochRanks(i, j) => IndexSet(shard[i]) \cap IndexSet(shard[j]) = {}

\* C2 amended: in every epoch, under the synchronized schedule, the shards of
\* two samplers that differ only in rank share no dataset index, provided
\* padding repeats no index (pad_batch is false, or num_batches * world_size *
\* batch_size equals the dataset length so that nothing is appended).
C2_DisjointNoReuse ==
    \A i, j \in Samplers :
        (SameEpochRanks(i, j) /\ NoReuse(i)) =>
            IndexSet(shard[i]) \cap IndexSet(shard[j]) = {}

\* two ranks hold non-empty, disjoint shards of a shuffled second epoch
C2_Witness ==
    \E i, j \in Samplers :
        /\ SameEpochRanks(i, j) /\ NoReuse(i)
        /\ shuffle /\ epoch[i] = 2
        /\ IndexSet(shard[i]) # {} /\ IndexSet(shard[j]) # {}
        /\ IndexSet(shard[i]) \cap IndexSet(shard[j]) = {}

\* two samplers of one configuration, rank included, after the same Reset calls
Twins(i, j) ==
    /\ i # j
    /\ rank[i] = rank[j]
    /\ HasReset(i) /\ HasReset(j)
    /\ epoch[i] = epoch[j]

\* C3 as stated: two samplers of identical configuration driven through the
\* same Reset calls hold identical shards after every Reset.
C3_Deterministic ==
    \A i, j \in Samplers :
        Twins(i, j) =>
            /\ ("_shard" \in attrs[i]) = ("_shard" \in attrs[j])
            /\ shard[i] = shard[j]

\* C3 amended: two samplers of identical configuration with
\* sync_seed_schedule = true or shuffle = false, driven through the same Reset
\* calls, hold identical shards after every Reset.
C3_DeterministicSeeded ==
    \A i, j \in Samplers :
        (Twins(i, j) /\ (sync_seed_schedule \/ ~shuffle)) =>
            /\ ("_shard" \in attrs[i]) = ("_shard" \in attrs[j])
            /\ shard[i] = shard[j]

\* twins hold the same shuffled, non-trivial shard of the second epoch
C3_Witness ==
    \E i, j \in Samplers :
        /\ Twins(i, j)
        /\ shuffle /\ sync_seed_schedule /\ epoch[i] = 2
        /\ Len(shard[i]) >= 2 /\ shard[i] = shard[j]
        /\ shard[i][1] # shard[i][2]

\* no aspect-ratio bucketing is configured
NoBucketing == aspect_ratio_thresholds.kind = "None"

\* sampler i's last call was __next__ and returned a batch
Returned(i) == ret[i].op = "next" /\ ret[i].kind = "value"

\* C4: with pad_batch = true and no bucketing, for every dataset length >= 1,
\* batch_size and world_size, Reset succeeds, every batch next returns has
\* exactly batch_size elements, and the padded stream is the permuted index
\* sequence followed by its own first num_batches*W*B - L elements.
C4_PadBatchFull ==
    \A i \in Samplers :
        (pad_batch /\ NoBucketing /\ dataset.len >= 1) =>
            /\ HasReset(i) => ret[i].kind = "ok"
            /\ Returned(i) => Len(ret[i].val) = batch_size
            /\ "_shard" \in attrs[i] =>
                 \A g \in 0..(MaxKey - 1) :
                    LET ids == ShuffledIndices(Stored(i), g).ids
                        pad == num_batches[i] * whole_batch_size - dataset.len
                    IN /\ Len(ids) = dataset.len + pad
                       /\ SubSeq(ids, dataset.len + 1, dataset.len + pad) =
                          SubSeq(ids, 1, pad)

\* C5 as stated: with pad_batch = false and no bucketing, every batch returned
\* before the last one of the pass has exactly batch_size elements.
C5_OnlyLastShort ==
    \A i \in Samplers :
        (~pad_batch /\ NoBucketing /\ Returned(i) /\ step[i] < num_batches[i]) =>
            Len(ret[i].val) = batch_size

\* C5 amended: with pad_batch = false and no bucketing, every returned batch
\* has at most batch_size elements and no sentinel; with world_size = 1 at
\* most one batch of the pass is shorter than batch_size, and with shuffle =
\* false as well it is the final batch of the pass.
C5_ShortBatches ==
    \A i \in Samplers :
        (~pad_batch /\ NoBucketing) =>
            /\ Returned(i) =>
                 /\ Len(ret[i].val) <= batch_size
                 /\ -1 \notin Range(ret[i].val)
            /\ (world_size = 1 /\ "_shard" \in attrs[i]) =>
                 Cardinality({b \in 1..Len(shard[i]) : -1 \in Range(shard[i][b])}) <= 1
            /\ (world_size = 1 /\ ~shuffle /\ Returned(i) /\ step[i] < num_batches[i]) =>
                 Len(ret[i].val) = batch_size

\* a short batch is returned before the last one of a shuffled pass
C5_Witness ==
    \E i \in Samplers :
        /\ ~pad_batch /\ NoBucketing /\ world_size = 1
        /\ Returned(i) /\ step[i] < num_batches[i]
        /\ Len(ret[i].val) < batch_size

\* the bucket every index of a batch lies in, if there is one
OneBucket(i, batch) ==
    \E b \in 0..Len(bucket_sizes[i]) :
        \A k \in 1..Len(batch) : bucket_flags[i][batch[k] + 1] = b

\* C6: with aspect_ratio_thresholds set, after Reset every non-empty bucket
\* contributes a segment of exactly bucket_size + pad_length entries, a
\* multiple of world_size * batch_size, all members of that bucket, so that
\* every local batch of every rank contains indices of one bucket only.
C6_BucketSegments ==
    \A i \in Samplers :
        (Truthy(aspect_ratio_thresholds) /\ SetupAssertHolds /\ HasReset(i)) =>
            /\ ret[i].kind = "ok"
            /\ \A idx \in 0..(Len(bucket_sizes[i]) - 1), g \in 0..(MaxKey - 1) :
                 bucket_sizes[i][idx + 1] > 0 =>
                    LET seg == BucketSegment(Where(bucket_flags[i], idx, 1),
                                             pad_lengths[i][idx + 1], g)
                    IN /\ Len(seg) = bucket_sizes[i][idx + 1] + pad_lengths[i][idx + 1]
                       /\ Len(seg) % whole_batch_size = 0
                       /\ \A k \in 1..Len(seg) : bucket_flags[i][seg[k] + 1] = idx
            /\ Len(shard[i]) = num_batches[i]
            /\ \A b \in 1..Len(shard[i]) : OneBucket(i, shard[i][b])

\* the step is a call of reset() on sampler i, direct or through __iter__
ResetCalled(i) ==
    \/ Called(i, "reset")
    \/ Called(i, "iter") /\ ret'[i].kind # "ok"
    \/ Called(i, "iter") /\ IterResets(i)

\* C7: every creation of an iterator (iter) performs a Reset: the step is 0
\* and the epoch counter advances under the synchronized schedule.
C7_IterResets ==
    [][\A i \in Samplers :
          (Called(i, "iter") /\ ret'[i].kind = "ok") =>
              /\ step'[i] = 0
              /\ SeededBranch => epoch'[i] = epoch[i] + 1]_vars

\* C8 as stated: every Reset call with sync_seed_schedule = true increases the
\* epoch counter by exactly one, whatever shuffle is; every Reset call with
\* sync_seed_schedule = false leaves it unchanged.
C8_EpochPerReset ==
    [][\A i \in Samplers :
          ResetCalled(i) =>
              epoch'[i] = IF sync_seed_schedule THEN epoch[i] + 1 ELSE epoch[i]]_vars

\* Setup has succeeded on sampler i or succeeds when it runs
SetupSucceeds(i) == "num_batches" \in attrs[i] \/ SetupCompletes

\* C8 amended: every Reset call with sync_seed_schedule = true and shuffle =
\* true whose Setup succeeds increases the epoch counter by exactly one, also
\* when the Reset then fails; every other Reset call leaves it unchanged.
C8_EpochPerSeededReset ==
    [][\A i \in Samplers :
          ResetCalled(i) =>
              epoch'[i] = IF sync_seed_schedule /\ shuffle /\ SetupSucceeds(i)
                          THEN epoch[i] + 1 ELSE epoch[i]]_vars

\* a second seeded Reset has brought the epoch counter to 2
C8_Witness ==
    \E i \in Samplers :
        /\ ret[i] = Ret("reset", "ok", <<>>)
        /\ sync_seed_schedule /\ shuffle
        /\ epoch[i] = 2

\* C9: 0 <= step <= num_batches in every reachable state, and once step equals
\* num_batches every further next signals end-of-sequence, and step, shard and
\* epoch counter stay as they are until reset is called.
C9_ExhaustionTerminal ==
    /\ [](\A i \in Samplers :
             "num_batches" \in attrs[i] => (0 <= step[i] /\ step[i] <= num_batches[i]))
    /\ [][\A i \in Samplers :
             ("num_batches" \in attrs[i] /\ step[i] = num_batches[i]) =>
                 /\ Called(i, "next") => ret'[i].kind = "StopIteration"
                 /\ ~ResetCalled(i) =>
                      /\ step'[i] = step[i]
                      /\ shard'[i] = shard[i]
                      /\ epoch'[i] = epoch[i]]_vars

\* a pass of at least two batches is exhausted and next has signalled it
C9_Witness ==
    \E i \in Samplers :
        /\ num_batches[i] >= 2
        /\ step[i] = num_batches[i]
        /\ ret[i] = Ret("next", "StopIteration", <<>>)

\* C10: length() can be called in any state, returns the cached num_batches,
\* the same value on every call, and never performs a Reset: epoch counter,
\* step and shard are left unchanged.
C10_LengthPure ==
    /\ [][\A i \in Samplers :
             Called(i, "len") =>
                 /\ epoch'[i] = epoch[i]
                 /\ step'[i] = step[i]
                 /\ shard'[i] = shard[i]
                 /\ ("_shard" \in attrs'[i]) = ("_shard" \in attrs[i])
                 /\ IF SetupSucceeds(i)
                    THEN /\ "num_batches" \in attrs'[i]
                         /\ ret'[i] = Ret("len", "value", <<num_batches'[i]>>)
                    ELSE /\ attrs'[i] = attrs[i]
                         /\ ret'[i].op = "len"
                         /\ ret'[i].kind \in {"AssertionError", "ValueError"}]_vars
    /\ [][\A i \in Samplers :
             "num_batches" \in attrs[i] =>
                 /\ "num_batches" \in attrs'[i]
                 /\ num_batches'[i] = num_batches[i]]_vars

\* length() has answered in the middle of a pass
C10_Witness ==
    \E i \in Samplers :
        /\ ret[i] = Ret("len", "value", <<num_batches[i]>>)
        /\ 0 < step[i] /\ step[i] < num_batches[i]

\* the least n with n * world_size * batch_size >= dataset length
LeastCover(n) ==
    /\ n >= 0
    /\ n * world_size * batch_size >= dataset.len
    /\ n > 0 => (n - 1) * world_size * batch_size < dataset.len

\* C11: without bucketing, for every dataset length L, world_size W and
\* batch_size B, Setup succeeds and yields num_batches = ceil(L / (W*B)),
\* whichever call ran it (setup, reset, iter or len).
C11_NumBatches ==
    \A i \in Samplers :
        NoBucketing =>
            /\ ret[i].op = "setup" => ret[i].kind = "ok"
            /\ ret[i].op \in {"setup", "reset", "iter", "len"} =>
                 "num_batches" \in attrs[i]
            /\ "num_batches" \in attrs[i] => LeastCover(num_batches[i])

\* setup() has rounded a quotient up: three items in batches of two
C11_Witness ==
    \E i \in Samplers :
        /\ NoBucketing /\ ret[i] = Ret("setup", "ok", <<>>)
        /\ dataset.len = 3 /\ whole_batch_size = 2
        /\ num_batches[i] = 2

\* the entry at position p (from 0) of the stream 0,1,...,L-1 followed by its
\* padding: the stream's own first entries with pad_batch, else the sentinel
IdentityEntry(p) ==
    IF p < dataset.len THEN p
    ELSE IF pad_batch THEN p - dataset.len
    ELSE -1

\* the r-th contiguous group of n batches of that stream
IdentityShard(r, n) ==
    [b \in 1..n |-> [k \in 1..batch_size |->
        IdentityEntry((r * n + b - 1) * batch_size + k - 1)]]

\* C12: with shuffle = false (the flat path of reset(), lines 106-122) the
\* identity ordering is used whatever sync_seed_schedule and the epoch are:
\* after every Reset the shard of rank r is the r-th contiguous group of
\* num_batches batches of the stream 0,1,...,L-1 followed by its padding.
C12_IdentityOrder ==
    \A i \in Samplers :
        (~shuffle /\ NoBucketing /\ HasReset(i)) =>
            /\ ret[i].kind = "ok"
            /\ "_shard" \in attrs[i]
            /\ shard[i] = IdentityShard(rank[i], num_batches[i])

\* aspect_ratio_thresholds is given, and given in a non-sequence shape
ThresholdsGiven == aspect_ratio_thresholds.kind # "None"
NonSequence == aspect_ratio_thresholds.kind = "scalar"

\* sampler i has produced neither a schedule nor a shard
NothingProduced(i) ==
    /\ attrs[i] = {}
    /\ num_batches[i] = 0 /\ shard[i] = <<>>

\* sampler i's last call ran setup(): directly, or through reset, iter or len
RanSetup(i) == ret[i].op \in {"setup", "reset", "iter", "len"}

\* C13: constructing a sampler with thresholds given and pad_batch = false
\* fails, constructing it with thresholds in a non-sequence shape fails, and
\* the first Setup fails when thresholds are given but the dataset provides no
\* aspect ratios; in each case no schedule (num_batches) or shard is produced.
C13_ConfigErrorsFatal ==
    \A i \in Samplers :
        /\ (ThresholdsGiven /\ ~pad_batch) => obj[i] = "failed"
        /\ NonSequence => obj[i] = "failed"
        /\ obj[i] = "failed" =>
             /\ ret[i] = Ret("init", "AssertionError", <<>>)
             /\ NothingProduced(i)
        /\ (ThresholdsGiven /\ ~dataset.has_ratios) =>
             /\ NothingProduced(i)
             /\ RanSetup(i) => ret[i].kind = "AssertionError"

\* a batch without its sentinel entries
NoSentinel(batch) == SelectSeq(batch, LAMBDA x : x # -1)

\* what the next request on sampler i is to return: the batch at the current
\* step, with the sentinel entries removed when pad_batch is false
DueBatch(i) ==
    LET batch == shard[i][step[i] + 1]
    IN IF pad_batch THEN batch ELSE NoSentinel(batch)

\* C14: after a Reset, the k-th next request (k = 1..num_batches) returns the
\* k-th batch of this rank's shard, without the sentinel entries when
\* pad_batch is false, and advances step by exactly one; after num_batches
\* batches next signals end-of-sequence.
C14_PassInOrder ==
    [][\A i \in Samplers :
          ("_shard" \in attrs[i] /\ Called(i, "next")) =>
              IF step[i] < num_batches[i]
              THEN /\ step[i] + 1 <= Len(shard[i])
                   /\ ret'[i] = Ret("next", "value", DueBatch(i))
                   /\ step'[i] = step[i] + 1
              ELSE /\ ret'[i] = Ret("next", "StopIteration", <<>>)
                   /\ step'[i] = step[i]]_vars

\* where the job's shards hold x: sampler, batch and position in the batch.
\* Index entries are returned by next as they stand in the shard; only the
\* sentinel is filtered out.
Occurrences(x) ==
    {p \in UNION {{<<i, b, k>> : b \in 1..Len(shard[i]), k \in 1..batch_size} :
                     i \in Job} :
        shard[p[1]][p[2]][p[3]] = x}

\* C15: without bucketing, for ranks 0..W-1 of one configuration after the
\* same number of Resets, under synchronized seeding or without shuffle, every
\* rank has a pass of num_batches batches and every dataset index 0..L-1 is
\* returned by at least one rank, and by exactly one, once, when pad_batch is
\* false.
C15_EpochCoverage ==
    ( /\ Covered
      /\ NoBucketing
      /\ sync_seed_schedule \/ ~shuffle
      /\ \A i \in Job : HasReset(i)
      /\ \A i, j \in Job : epoch[i] = epoch[j] )
    => /\ \A i \in Job : /\ "_shard" \in attrs[i]
                         /\ Len(shard[i]) = num_batches[i]
       /\ \A x \in 0..(dataset.len - 1) :
            /\ Cardinality(Occurrences(x)) >= 1
            /\ ~pad_batch => Cardinality(Occurrences(x)) = 1

====
